---- MODULE Spec2Model ----
(***************************************************************************)
(* License resolution engine of sbom_generator.py: license-name            *)
(* canonicalisation, raw license-text parsing, package de-duplication,     *)
(* the Maven Central parent-chain resolver and the enrichment loop.        *)
(*                                                                         *)
(* Text is modelled as a sequence of one-character strings, so that        *)
(* lower(), strip(), substring tests and the comma regex are computed      *)
(* character by character.  URLs are atomic strings.                       *)
(***************************************************************************)
EXTENDS Integers, Sequences, FiniteSets, TLC

None == "None"

\* a missing document or element (Python None where a record is expected)
Absent == [absent |-> TRUE]

\* no coordinates (Python None where a tuple is expected)
NoCoordinates == <<>>

(***************************************************************************)
(* Character-level string primitives (Python str methods)                  *)
(***************************************************************************)
UpperLetters == <<"A","B","C","D","E","F","G","H","I","J","K","L","M","N","O","P","Q","R","S","T","U","V","W","X","Y","Z">>

LowerLetters == <<"a","b","c","d","e","f","g","h","i","j","k","l","m","n","o","p","q","r","s","t","u","v","w","x","y","z">>

Digits == <<"0","1","2","3","4","5","6","7","8","9">>

Range(s) == {s[i] : i \in 1..Len(s)}

\* str.isspace for the characters used here
IsSpace(c) == c \in {" ", "\t"}

\* regex \w
IsWord(c) == c \in Range(UpperLetters) \cup Range(LowerLetters) \cup Range(Digits) \cup {"_"}

LowerChar(c) ==
    IF c \in Range(UpperLetters)
    THEN LowerLetters[CHOOSE i \in 1..26 : UpperLetters[i] = c]
    ELSE c

UpperChar(c) ==
    IF c \in Range(LowerLetters)
    THEN UpperLetters[CHOOSE i \in 1..26 : LowerLetters[i] = c]
    ELSE c

\* str.lower()
Lower(s) == [i \in 1..Len(s) |-> LowerChar(s[i])]

\* str.upper()
Upper(s) == [i \in 1..Len(s) |-> UpperChar(s[i])]

Slice(s, i, j) == IF i > j THEN <<>> ELSE SubSeq(s, i, j)

\* str.strip(chars): drop the leading and trailing characters that are in cs
StripSet(s, cs) ==
    LET keep == {i \in 1..Len(s) : s[i] \notin cs}
    IN  IF keep = {} THEN <<>>
        ELSE LET lo == CHOOSE i \in keep : \A j \in keep : i <= j
                 hi == CHOOSE i \in keep : \A j \in keep : i >= j
             IN  Slice(s, lo, hi)

\* str.strip()
Strip(s) == StripSet(s, {" ", "\t"})

\* s[i:].startswith(p), i 1-based
StartsWithAt(s, i, p) ==
    /\ i >= 1
    /\ i + Len(p) - 1 <= Len(s)
    /\ \A k \in 1..Len(p) : s[i + k - 1] = p[k]

\* str.startswith
StartsWith(s, p) == StartsWithAt(s, 1, p)

\* p in s
Contains(s, p) == \E i \in 1..(Len(s) + 1) : StartsWithAt(s, i, p)

\* index of the first c in s, 0 when there is none
FirstIndexOf(s, c) ==
    LET at == {i \in 1..Len(s) : s[i] = c}
    IN  IF at = {} THEN 0 ELSE CHOOSE i \in at : \A j \in at : i <= j

(***************************************************************************)
(* LicenseMapper                                                           *)
(***************************************************************************)
URL_APACHE2 == "https://www.apache.org/licenses/LICENSE-2.0.txt"

URL_MIT == "https://opensource.org/licenses/MIT"

URL_BSD3 == "https://opensource.org/licenses/BSD-3-Clause"

URL_GPL2 == "https://www.gnu.org/licenses/old-licenses/gpl-2.0.html"

URL_GPL3 == "https://www.gnu.org/licenses/gpl-3.0.html"

URL_GPL2_TXT == "https://www.gnu.org/licenses/old-licenses/gpl-2.0.txt"

URL_LGPL3 == "https://www.gnu.org/licenses/lgpl-3.0.html"

URL_EPL2 == "https://www.eclipse.org/legal/epl-2.0/"

URL_EPL1 == "https://www.eclipse.org/legal/epl-v10.html"

URL_MPL2 == "https://www.mozilla.org/en-US/MPL/2.0/"

URL_MPL11 == "https://www.mozilla.org/en-US/MPL/1.1/"

URL_ALFRESCO == "https://www.alfresco.com/legal/agreements"

\* the static table, as (key, url) pairs in declaration order
LICENSE_URLS ==
    << <<<<"a","p","a","c","h","e","-","2",".","0">>, URL_APACHE2>>,
       <<<<"a","p","a","c","h","e"," ","l","i","c","e","n","s","e",","," ","v","e","r","s","i","o","n"," ","2",".","0">>, URL_APACHE2>>,
       <<<<"t","h","e"," ","a","p","a","c","h","e"," ","s","o","f","t","w","a","r","e"," ","l","i","c","e","n","s","e",","," ","v","e","r","s","i","o","n"," ","2",".","0">>, URL_APACHE2>>,
       <<<<"t","h","e"," ","a","p","a","c","h","e"," ","s","o","f","t","w","a","r","e"," ","l","i","c","e","n","s","e">>, URL_APACHE2>>,
       <<<<"a","p","a","c","h","e"," ","l","i","c","e","n","s","e">>, URL_APACHE2>>,
       <<<<"m","i","t">>, URL_MIT>>,
       <<<<"m","i","t"," ","l","i","c","e","n","s","e">>, URL_MIT>>,
       <<<<"b","s","d","-","3","-","c","l","a","u","s","e">>, URL_BSD3>>,
       <<<<"b","s","d"," ","l","i","c","e","n","s","e">>, URL_BSD3>>,
       <<<<"b","s","d"," ","l","i","c","e","n","c","e">>, URL_BSD3>>,
       <<<<"g","p","l","-","2",".","0">>, URL_GPL2>>,
       <<<<"g","p","l","-","3",".","0">>, URL_GPL3>>,
       <<<<"g","n","u"," ","g","e","n","e","r","a","l"," ","p","u","b","l","i","c"," ","l","i","c","e","n","s","e"," ","v","2">>, URL_GPL2_TXT>>,
       <<<<"l","g","p","l","-","3",".","0">>, URL_LGPL3>>,
       <<<<"l","g","p","l","v","3">>, URL_LGPL3>>,
       <<<<"g","n","u"," ","l","e","s","s","e","r"," ","g","e","n","e","r","a","l"," ","p","u","b","l","i","c"," ","l","i","c","e","n","s","e"," ","v","3",".","0"," ","o","r"," ","l","a","t","e","r">>, URL_LGPL3>>,
       <<<<"e","c","l","i","p","s","e"," ","p","u","b","l","i","c"," ","l","i","c","e","n","s","e"," ","-"," ","v"," ","2",".","0">>, URL_EPL2>>,
       <<<<"e","c","l","i","p","s","e"," ","p","u","b","l","i","c"," ","l","i","c","e","n","s","e",","," ","v","e","r","s","i","o","n"," ","1",".","0">>, URL_EPL1>>,
       <<<<"m","p","l","-","2",".","0">>, URL_MPL2>>,
       <<<<"m","o","z","i","l","l","a"," ","p","u","b","l","i","c"," ","l","i","c","e","n","s","e"," ","v","e","r","s","i","o","n"," ","1",".","1">>, URL_MPL11>>,
       <<<<"c","d","d","l">>, "https://opensource.org/licenses/CDDL-1.0">>,
       <<<<"u","n","i","c","o","d","e","-","3",".","0">>, "https://www.unicode.org/license.txt">>,
       <<<<"b","o","u","n","c","y"," ","c","a","s","t","l","e"," ","l","i","c","e","n","c","e">>, "https://www.bouncycastle.org/licence.html">>,
       <<<<"c","o","m","m","o","n"," ","p","u","b","l","i","c"," ","l","i","c","e","n","s","e">>, "https://opensource.org/licenses/CPL-1.0">>,
       <<<<"c","u","p"," ","p","a","r","s","e","r"," ","g","e","n","e","r","a","t","o","r"," ","c","o","p","y","r","i","g","h","t"," ","n","o","t","i","c","e",","," ","l","i","c","e","n","s","e",","," ","a","n","d"," ","d","i","s","c","l","a","i","m","e","r">>,
         "http://www2.cs.tum.edu/projects/cup/licence.php">>,
       <<<<"a","l","f","r","e","s","c","o"," ","c","o","m","p","o","n","e","n","t"," ","l","i","c","e","n","s","e"," ","a","g","r","e","e","m","e","n","t">>, URL_ALFRESCO>> >>

TableKeys == {LICENSE_URLS[i][1] : i \in 1..Len(LICENSE_URLS)}

\* cls._LICENSE_URLS[key]
TableUrl(key) == LICENSE_URLS[CHOOSE i \in 1..Len(LICENSE_URLS) : LICENSE_URLS[i][1] = key][2]

\* the MIT rule with a containment test instead of the prefix test
MitRuleContains(license_name) == Contains(license_name, <<"m","i","t">>)

MitRule(license_name) == StartsWith(license_name, <<"m","i","t">>)

\* the LGPL rule without its "lesser" alternative
LgplRuleNoLesser(license_name) == Contains(license_name, <<"l","g","p","l">>)

LgplRule(license_name) ==
    Contains(license_name, <<"l","g","p","l">>) \/ Contains(license_name, <<"l","e","s","s","e","r">>)

apply_heuristics_url(license_name) ==
    IF Contains(license_name, <<"a","p","a","c","h","e">>) /\ Contains(license_name, <<"2",".","0">>)
    THEN TableUrl(<<"a","p","a","c","h","e","-","2",".","0">>)
    ELSE IF MitRule(license_name)
    THEN TableUrl(<<"m","i","t">>)
    ELSE IF Contains(license_name, <<"b","s","d">>)
    THEN TableUrl(<<"b","s","d","-","3","-","c","l","a","u","s","e">>)
    ELSE IF Contains(license_name, <<"e","c","l","i","p","s","e">>)
    THEN (IF Contains(license_name, <<"2",".","0">>)
          THEN TableUrl(<<"e","c","l","i","p","s","e"," ","p","u","b","l","i","c"," ","l","i","c","e","n","s","e"," ","-"," ","v"," ","2",".","0">>)
          ELSE TableUrl(<<"e","c","l","i","p","s","e"," ","p","u","b","l","i","c"," ","l","i","c","e","n","s","e",","," ","v","e","r","s","i","o","n"," ","1",".","0">>))
    ELSE IF LgplRule(license_name)
    THEN TableUrl(<<"l","g","p","l","-","3",".","0">>)
    ELSE IF Contains(license_name, <<"g","p","l">>)
    THEN (IF Contains(license_name, <<"3">>)
          THEN TableUrl(<<"g","p","l","-","3",".","0">>)
          ELSE TableUrl(<<"g","p","l","-","2",".","0">>))
    ELSE IF Contains(license_name, <<"m","o","z","i","l","l","a">>) \/ Contains(license_name, <<"m","p","l">>)
    THEN (IF Contains(license_name, <<"2",".","0">>)
          THEN TableUrl(<<"m","p","l","-","2",".","0">>)
          ELSE TableUrl(<<"m","o","z","i","l","l","a"," ","p","u","b","l","i","c"," ","l","i","c","e","n","s","e"," ","v","e","r","s","i","o","n"," ","1",".","1">>))
    ELSE IF Contains(license_name, <<"a","l","f","r","e","s","c","o">>)
    THEN TableUrl(<<"a","l","f","r","e","s","c","o"," ","c","o","m","p","o","n","e","n","t"," ","l","i","c","e","n","s","e"," ","a","g","r","e","e","m","e","n","t">>)
    ELSE None

\* normalisation that forgets to lowercase
NormalizeNoLower(license_name) == StripSet(Strip(license_name), {"\""})

Normalize(license_name) == StripSet(Strip(Lower(license_name)), {"\""})

get_url(license_name) ==
    LET normalized_name == Normalize(license_name)
    IN  IF normalized_name \in TableKeys
        THEN TableUrl(normalized_name)
        ELSE apply_heuristics_url(normalized_name)

get_canonical_license_url(license_name) == get_url(license_name)

\* License.__post_init__: an empty or missing url is filled by the mapper
License(name, url) ==
    [name |-> name,
     url  |-> IF url \in {None, ""} THEN get_canonical_license_url(name) ELSE url]

(***************************************************************************)
(* SyftOutputParser._parse_license_text                                    *)
(***************************************************************************)
\* lookahead [Vv]ersion\b at position i
VersionAt(s, i) ==
    /\ StartsWithAt(s, i, <<"V","e","r","s","i","o","n">>) \/ StartsWithAt(s, i, <<"v","e","r","s","i","o","n">>)
    /\ (i + 7 > Len(s) \/ ~IsWord(s[i + 7]))

\* number of consecutive whitespace characters from position i on
RECURSIVE SpaceRun(_, _)
SpaceRun(s, i) ==
    IF i <= Len(s) /\ IsSpace(s[i]) THEN 1 + SpaceRun(s, i + 1) ELSE 0

\* a lookahead that is tested once, after all the whitespace, with no
\* backtracking of \s*
CommaMatchLenPossessive(s, i) ==
    LET n == SpaceRun(s, i + 1)
    IN  IF VersionAt(s, i + 1 + n) THEN 0 ELSE 1 + n

\* length of the match of ,\s*(?![Vv]ersion\b) at the comma s[i], 0 if none:
\* \s* is greedy and backtracks, so the longest run of k whitespace
\* characters after which the lookahead succeeds is taken
CommaMatchLen(s, i) ==
    LET n  == SpaceRun(s, i + 1)
        ok == {k \in 0..n : ~VersionAt(s, i + 1 + k)}
    IN  IF ok = {} THEN 0
        ELSE 1 + (CHOOSE k \in ok : \A j \in ok : j <= k)

\* the positions of the commas at which re.split splits, scanning from i
RECURSIVE SplitPointsFrom(_, _)
SplitPointsFrom(s, i) ==
    IF i > Len(s) THEN {}
    ELSE IF s[i] = "," /\ CommaMatchLen(s, i) > 0
         THEN {i} \cup SplitPointsFrom(s, i + CommaMatchLen(s, i))
         ELSE SplitPointsFrom(s, i + 1)

\* re.split(r',\s*(?![Vv]ersion\b)', s): start is where the current
\* fragment began, i the scan position
RECURSIVE SplitFrom(_, _, _)
SplitFrom(s, start, i) ==
    IF i > Len(s) THEN <<Slice(s, start, Len(s))>>
    ELSE IF s[i] = "," /\ CommaMatchLen(s, i) > 0
         THEN <<Slice(s, start, i - 1)>>
              \o SplitFrom(s, i + CommaMatchLen(s, i), i + CommaMatchLen(s, i))
         ELSE SplitFrom(s, start, i + 1)

re_split(s) == SplitFrom(s, 1, 1)

\* number of consecutive non-whitespace characters from position i on
RECURSIVE NonSpaceRun(_, _)
NonSpaceRun(s, i) ==
    IF i <= Len(s) /\ ~IsSpace(s[i]) THEN 1 + NonSpaceRun(s, i + 1) ELSE 0

\* length of the match of https?://\S+ at position i, 0 if none
UrlMatchLen(s, i) ==
    LET h == IF StartsWithAt(s, i, <<"h","t","t","p","s",":","/","/">>) THEN 8
             ELSE IF StartsWithAt(s, i, <<"h","t","t","p",":","/","/">>) THEN 7 ELSE 0
    IN  IF h > 0 /\ NonSpaceRun(s, i + h) > 0 THEN h + NonSpaceRun(s, i + h) ELSE 0

\* re.sub(r'https?://\S+', '', s)
RECURSIVE RemoveUrlsFrom(_, _)
RemoveUrlsFrom(s, i) ==
    IF i > Len(s) THEN <<>>
    ELSE IF UrlMatchLen(s, i) > 0 THEN RemoveUrlsFrom(s, i + UrlMatchLen(s, i))
         ELSE <<s[i]>> \o RemoveUrlsFrom(s, i + 1)

\* s.split(';', 1)[0]
BeforeSemicolon(s) ==
    LET semis == {i \in 1..Len(s) : s[i] = ";"}
    IN  IF semis = {} THEN s
        ELSE Slice(s, 1, (CHOOSE i \in semis : \A j \in semis : i <= j) - 1)

\* the body of the loop over parts: the cleaned name of one fragment
clean_name(part) == Strip(BeforeSemicolon(RemoveUrlsFrom(Strip(part), 1)))

RECURSIVE LicensesOfParts(_)
LicensesOfParts(parts) ==
    IF parts = <<>> THEN <<>>
    ELSE (IF clean_name(Head(parts)) # <<>>
          THEN <<License(clean_name(Head(parts)), None)>>
          ELSE <<>>) \o LicensesOfParts(Tail(parts))

parse_license_text(license_text) ==
    IF license_text = <<>> \/ license_text = <<"-">> THEN <<>>
    ELSE LicensesOfParts(re_split(license_text))

(***************************************************************************)
(* SyftOutputParser.parse                                                  *)
(***************************************************************************)
NL == "\n"

\* str.strip() of a text that may hold line ends
StripText(s) == StripSet(s, {" ", "\t", NL})

\* str.splitlines, for texts whose line ends are "\n"
RECURSIVE splitlines(_)
splitlines(s) ==
    IF s = <<>> THEN <<>>
    ELSE LET i == FirstIndexOf(s, NL)
         IN  IF i = 0 THEN <<s>>
             ELSE <<Slice(s, 1, i - 1)>> \o splitlines(Slice(s, i + 1, Len(s)))

VENDOR_PREFIX == <<"a","l","f","r","e","s","c","o","-">>

VENDOR_LICENSE == <<"G","N","U"," ","L","e","s","s","e","r"," ","G","e","n","e","r","a","l"," ","P","u","b","l","i","c"," ","L","i","c","e","n","s","e"," ","v","3",".","0"," ","o","r"," ","l","a","t","e","r">>

Colons(s) == {i \in 1..Len(s) : s[i] = ":"}

\* the positions where " -" starts
Dashes(s) == {k \in 1..(Len(s) - 1) : s[k] = " " /\ s[k + 1] = "-"}

\* PACKAGE_PATTERN ^(.+?):(.+?):(.*?) - ?(.*)$ : the ways to place the two
\* colons (at i and j) and the " -" (at k) that end the first three groups
PatternMatches(s) ==
    {m \in Colons(s) \X Colons(s) \X Dashes(s) :
        m[1] >= 2 /\ m[2] >= m[1] + 2 /\ m[3] >= m[2] + 1}

LexLess(a, b) ==
    \/ a[1] < b[1]
    \/ a[1] = b[1] /\ a[2] < b[2]
    \/ a[1] = b[1] /\ a[2] = b[2] /\ a[3] <= b[3]

\* the lazy groups take the first placement the backtracking search meets
FirstMatch(s) ==
    CHOOSE m \in PatternMatches(s) : \A o \in PatternMatches(s) : LexLess(m, o)

\* [g.strip() for g in match.groups()]; " ?" is greedy and takes a space
\* that follows the dash
MatchGroups(s) ==
    LET m     == FirstMatch(s)
        after == IF m[3] + 2 <= Len(s) /\ s[m[3] + 2] = " " THEN m[3] + 3 ELSE m[3] + 2
    IN  [name         |-> Strip(Slice(s, 1, m[1] - 1)),
         version      |-> Strip(Slice(s, m[1] + 1, m[2] - 1)),
         purl         |-> Strip(Slice(s, m[2] + 1, m[3] - 1)),
         license_text |-> Strip(Slice(s, after, Len(s)))]

\* a vendor rule that replaces an empty license text only, not the dash
VendorFallbackEmptyOnly(name, text) ==
    IF StartsWith(name, VENDOR_PREFIX) /\ text = <<>> THEN VENDOR_LICENSE ELSE text

\* "if name.startswith('alfresco-') and (not license_text or license_text == '-')"
VendorFallback(name, text) ==
    IF StartsWith(name, VENDOR_PREFIX) /\ (text = <<>> \/ text = <<"-">>)
    THEN VENDOR_LICENSE
    ELSE text

Package(name, version, purl, licenses, license_source) ==
    [name |-> name, version |-> version, purl |-> purl, licenses |-> licenses,
     license_source |-> license_source]

\* one iteration of the loop over the lines: nothing for a blank line or a
\* line the pattern does not match, else the package
parse_line(raw) ==
    LET line == Strip(raw)
    IN  IF line = <<>> \/ PatternMatches(line) = {} THEN <<>>
        ELSE LET g == MatchGroups(line)
             IN  <<Package(g.name, g.version, g.purl,
                           parse_license_text(VendorFallback(g.name, g.license_text)),
                           "Original")>>

RECURSIVE ParseLines(_)
ParseLines(lines) ==
    IF lines = <<>> THEN <<>>
    ELSE parse_line(Head(lines)) \o ParseLines(Tail(lines))

parse(syft_output) == ParseLines(splitlines(syft_output))

(***************************************************************************)
(* PackageDeduplicator                                                     *)
(***************************************************************************)
unique_key(package) == <<package.name, package.version>>

LicenseNames(licenses) == {licenses[i].name : i \in 1..Len(licenses)}

\* a merge that compares whole License objects (name and url)
RECURSIVE MergeLicensesByObject(_, _)
MergeLicensesByObject(existing, new) ==
    IF new = <<>> THEN existing
    ELSE IF Head(new) \in Range(existing)
         THEN MergeLicensesByObject(existing, Tail(new))
         ELSE MergeLicensesByObject(Append(existing, Head(new)), Tail(new))

\* the inner loop: append each license whose name is not yet present
RECURSIVE MergeLicenses(_, _)
MergeLicenses(existing, new) ==
    IF new = <<>> THEN existing
    ELSE IF Head(new).name \in LicenseNames(existing)
         THEN MergeLicenses(existing, Tail(new))
         ELSE MergeLicenses(Append(existing, Head(new)), Tail(new))

\* one iteration of the outer loop; merged is the dict in insertion order
MergeInto(merged, package) ==
    LET key == unique_key(package)
        m1  == IF \E i \in 1..Len(merged) : unique_key(merged[i]) = key
               THEN merged
               ELSE Append(merged, [name |-> package.name,
                                    version |-> package.version,
                                    purl |-> package.purl,
                                    licenses |-> <<>>,
                                    license_source |-> package.license_source])
        k   == CHOOSE i \in 1..Len(m1) : unique_key(m1[i]) = key
    IN  [m1 EXCEPT ![k].licenses = MergeLicenses(m1[k].licenses, package.licenses)]

RECURSIVE DedupFold(_, _)
DedupFold(merged, packages) ==
    IF packages = <<>> THEN merged
    ELSE DedupFold(MergeInto(merged, Head(packages)), Tail(packages))

deduplicate(packages) == DedupFold(<<>>, packages)

(***************************************************************************)
(* GitHubClient, MavenCentralClient (pure parts)                           *)
(***************************************************************************)
DEFAULT_MAX_DEPTH == 4

\* GitHubClient.get_license_from_repo_url; response is what the GET to the
\* license endpoint gave: [ok |-> FALSE] for a non-200 status, a transport
\* error or a body without license.spdx_id
get_license_from_repo_url(repo_url, response) ==
    IF ~Contains(repo_url, <<"g","i","t","h","u","b",".","c","o","m">>) THEN <<>>
    ELSE IF ~Contains(repo_url, <<"g","i","t","h","u","b",".","c","o","m","/">>) THEN <<>>
    ELSE IF ~response.ok THEN <<>>
    ELSE LET mapped == get_canonical_license_url(response.spdx_id)
         IN  <<License(response.spdx_id,
                       IF mapped # None THEN mapped ELSE response.html_url)>>

\* the loop over the <license> elements of a POM
RECURSIVE DeclaredLicenses(_)
DeclaredLicenses(entries) ==
    IF entries = <<>> THEN <<>>
    ELSE LET name == Strip(Head(entries).name)
             url  == Head(entries).url
         IN  (IF name # <<>>
              THEN <<License(name, IF url # "" THEN url
                                   ELSE get_canonical_license_url(name))>>
              ELSE <<>>) \o DeclaredLicenses(Tail(entries))

\* does extract_licenses_from_pom call the GitHub client for this POM
CallsGitHub(pom) == DeclaredLicenses(pom.licenses) = <<>> /\ pom.scm_url # <<>>

\* an extraction that unions the declared licenses with the GitHub result
extract_licenses_merging(pom, response) ==
    DeclaredLicenses(pom.licenses)
        \o (IF pom.scm_url # <<>>
            THEN get_license_from_repo_url(pom.scm_url, response) ELSE <<>>)

extract_licenses_from_pom(pom, response) ==
    IF DeclaredLicenses(pom.licenses) # <<>> THEN DeclaredLicenses(pom.licenses)
    ELSE IF pom.scm_url # <<>> THEN get_license_from_repo_url(pom.scm_url, response)
    ELSE <<>>

\* a parent group that is not defaulted to the child's group
ParentTripleNoDefault(parent, group_id) ==
    <<Strip(parent.groupId), Strip(parent.artifactId), Strip(parent.version)>>

\* the coordinates of the <parent> element, group defaulting to the child's
ParentTriple(parent, group_id) ==
    <<Strip(IF parent.groupId # <<>> THEN parent.groupId ELSE group_id),
      Strip(parent.artifactId), Strip(parent.version)>>

\* "if not (parent_artifact and parent_version)" and "if parent is None"
HasUsableParent(pom, group_id) ==
    /\ pom.parent # Absent
    /\ ParentTriple(pom.parent, group_id)[2] # <<>>
    /\ ParentTriple(pom.parent, group_id)[3] # <<>>

(***************************************************************************)
(* PackageHeuristics                                                       *)
(***************************************************************************)
HEURISTIC_RULES ==
    << [rule |-> "apache_packages",
        license |-> License(<<"A","p","a","c","h","e","-","2",".","0">>, get_canonical_license_url(<<"a","p","a","c","h","e","-","2",".","0">>))],
       [rule |-> "jakarta_packages",
        license |-> License(<<"E","P","L","-","2",".","0">>,
                            get_canonical_license_url(<<"e","c","l","i","p","s","e"," ","p","u","b","l","i","c"," ","l","i","c","e","n","s","e"," ","-"," ","v"," ","2",".","0">>))],
       [rule |-> "st4_packages",
        license |-> License(<<"B","S","D","-","3","-","C","l","a","u","s","e">>, get_canonical_license_url(<<"b","s","d","-","3","-","c","l","a","u","s","e">>))],
       [rule |-> "acegi_packages",
        license |-> License(<<"A","p","a","c","h","e","-","2",".","0">>, get_canonical_license_url(<<"a","p","a","c","h","e","-","2",".","0">>))] >>

\* some condition of rule r holds of the package
RuleApplies(r, package) ==
    IF r = 1 THEN
        \/ Contains(package.purl, <<"o","r","g",".","a","p","a","c","h","e">>)
        \/ StartsWith(package.name, <<"t","o","m","c","a","t">>)
        \/ StartsWith(package.name, <<"t","i","k","a","-">>)
        \/ StartsWith(package.name, <<"c","o","m","m","o","n","s","-">>)
        \/ package.name \in {<<"c","a","t","a","l","i","n","a">>, <<"j","a","s","p","e","r">>, <<"c","a","t","a","l","i","n","a","-","h","a">>,
                             <<"c","a","t","a","l","i","n","a","-","t","r","i","b","e","s">>, <<"c","a","t","a","l","i","n","a","-","s","s","i">>,
                             <<"c","a","t","a","l","i","n","a","-","s","t","o","r","e","c","o","n","f","i","g">>}
    ELSE IF r = 2 THEN StartsWith(package.name, <<"j","a","k","a","r","t","a">>)
    ELSE IF r = 3 THEN StartsWith(package.name, <<"s","t","4">>) \/ package.name = <<"S","T","4">>
    ELSE StartsWith(package.name, <<"a","c","e","g","i">>)

apply_heuristics(package) ==
    LET hits == {r \in 1..Len(HEURISTIC_RULES) : RuleApplies(r, package)}
    IN  IF hits = {} THEN <<>>
        ELSE <<HEURISTIC_RULES[CHOOSE r \in hits : \A q \in hits : r <= q].license>>

(***************************************************************************)
(* LicenseEnricher (pure parts)                                            *)
(***************************************************************************)
ENRICHED == "Maven/GitHub/Heuristic"

ORIGINAL == "Original"

\* NoCoordinates when the purl is not a Maven purl or a split raises ValueError
extract_maven_coordinates(purl) ==
    IF ~StartsWith(purl, <<"p","k","g",":","m","a","v","e","n","/">>) THEN NoCoordinates
    ELSE LET purl_path == Slice(purl, 11, Len(purl))
             at        == FirstIndexOf(purl_path, "@")
         IN  IF at = 0 THEN NoCoordinates
             ELSE LET coordinates == Slice(purl_path, 1, at - 1)
                      version     == Slice(purl_path, at + 1, Len(purl_path))
                      slash       == FirstIndexOf(coordinates, "/")
                  IN  IF slash = 0 THEN NoCoordinates
                      ELSE <<Slice(coordinates, 1, slash - 1),
                             Slice(coordinates, slash + 1, Len(coordinates)),
                             version>>

has_licenses(package) == Len(package.licenses) > 0

\* [pkg for pkg in packages if not pkg.has_licenses], as indices
RECURSIVE WithoutLicenses(_, _)
WithoutLicenses(packages, i) ==
    IF i > Len(packages) THEN <<>>
    ELSE (IF has_licenses(packages[i]) THEN <<>> ELSE <<i>>)
         \o WithoutLicenses(packages, i + 1)

\* a delay before every lookup, the first included
NeedsDelayAlways(i) == TRUE

\* "if i > 1: time.sleep(RATE_LIMIT_DELAY)"
NeedsDelay(i) == i > 1

\* a cache that keeps documents only, not failed fetches
CacheDocumentsOnly(cache, triple, response) ==
    IF response = Absent THEN cache
    ELSE [t \in DOMAIN cache \cup {triple} |->
             IF t = triple THEN response ELSE cache[t]]

\* lru_cache(maxsize=None): the return value, a failed fetch included, is stored
CacheStore(cache, triple, response) ==
    [t \in DOMAIN cache \cup {triple} |->
        IF t = triple THEN response ELSE cache[t]]

\* a budget that is not decremented on the way to the parent
NextDepthSame(max_depth) == max_depth

\* max_depth - 1
NextDepth(max_depth) == max_depth - 1

(***************************************************************************)
(* State                                                                   *)
(***************************************************************************)
VARIABLES
    pc,               \* position of the operation under way
    variant,          \* how license_name was built (input bookkeeping)
    license_name,     \* argument of LicenseMapper.get_url
    url_result,       \* its return value
    license_text,     \* argument of _parse_license_text
    split_points,     \* commas at which re.split split license_text
    parsed_licenses,  \* its return value
    packages_in,      \* argument of PackageDeduplicator.deduplicate
    merged_out,       \* its return value
    registry,         \* environment: the document Maven Central holds per triple
    cache,            \* lru_cache of fetch_pom: triple -> return value
    net_gets,         \* history: number of network GETs per triple
    first_fetch,      \* history: what the first fetch_pom of a triple returned
    fetch_calls,      \* history: number of fetch_pom calls per triple
    cur,              \* lookup_license_recursively: (group_id, artifact_id, version)
    depth,            \* lookup_license_recursively: max_depth of the current frame
    start_depth,      \* history: max_depth of the outermost frame
    pom,              \* lookup_license_recursively: the fetched POM
    pom_licenses,     \* lookup_license_recursively: licenses extracted from pom
    requested,        \* history: fetch_pom calls made by the outermost call
    links,            \* history: the descriptors visited and what each yielded
    result,           \* return value of the outermost lookup_license_recursively
    calls,            \* number of resolver calls made so far
    packages,         \* enrich_packages: the list, mutated in place
    packages0,        \* history: the list as passed in
    todo,             \* enrich_packages: packages_without_licenses, as indices
    idx,              \* enrich_packages: loop counter i
    found,            \* enrich_packages: licenses returned by the lookup
    events,           \* history: delays and lookup attempts, in order
    outcomes,         \* history: what each lookup returned, per package looked up
    attempts,         \* history: sources tried for the current package
    returned,         \* return value of enrich_packages
    scanned,          \* environment: what the scanner found, entry by entry
    syft_output,      \* main: what SyftRunner.run returned (the scanner's stdout)
    trace,            \* history: the pipeline stages entered, in order
    report,           \* the report file: the packages written to it, or none
    exit_status       \* the status the process ended with, or none while running

canonVars == <<variant, license_name, url_result>>

parseVars == <<license_text, split_points, parsed_licenses>>

dedupVars == <<packages_in, merged_out>>

envVars == <<registry>>

fetchVars == <<cache, net_gets, first_fetch, fetch_calls>>

resolveVars == <<cur, depth, start_depth, pom, pom_licenses, requested, links,
                 result, calls>>

enrichVars == <<packages, packages0, todo, idx, found, events, outcomes, returned>>

netVars == <<envVars, fetchVars, resolveVars, enrichVars, attempts>>

mainVars == <<scanned, syft_output, trace, report, exit_status>>

vars == <<pc, canonVars, parseVars, dedupVars, netVars, mainVars>>

EmptyMap == [t \in {} |-> None]

FetchIdle ==
    /\ cache = EmptyMap /\ net_gets = EmptyMap /\ first_fetch = EmptyMap
    /\ fetch_calls = EmptyMap

ResolveIdle ==
    /\ cur = <<>> /\ depth = 0 /\ start_depth = 0 /\ pom = Absent
    /\ pom_licenses = <<>> /\ requested = 0 /\ links = <<>> /\ result = <<>>
    /\ calls = 0 /\ attempts = <<>>

EnrichIdle ==
    /\ packages = <<>> /\ packages0 = <<>> /\ todo = <<>> /\ idx = 0
    /\ found = <<>> /\ events = <<>> /\ outcomes = <<>> /\ returned = <<>>

NetIdle == registry = EmptyMap /\ FetchIdle /\ ResolveIdle /\ EnrichIdle

NoVariant == [kind |-> "none"]

CanonIdle == variant = NoVariant /\ license_name = <<>> /\ url_result = None

ParseIdle == license_text = <<>> /\ split_points = {} /\ parsed_licenses = <<>>

DedupIdle == packages_in = <<>> /\ merged_out = <<>>

\* no report file, no exit status yet
NoReport == [written |-> FALSE]

Running == -1

MainIdle == scanned = <<>> /\ syft_output = <<>> /\ trace = <<>> /\ report = NoReport /\ exit_status = Running

\* all sequences over S of length at most n
SeqUpTo(S, n) == UNION {[1..k -> S] : k \in 0..n}

RECURSIVE Concat(_)
Concat(ss) == IF ss = <<>> THEN <<>> ELSE Head(ss) \o Concat(Tail(ss))

(***************************************************************************)
(* Canonicaliser inputs: variants of table keys, and token-built names     *)
(***************************************************************************)
MaxWraps == 2

MaxTokens == 3

WrapOps == {"lead_ws", "trail_ws", "both_ws", "dquote", "squote"}

CaseKinds == {"lower", "upper", "title"}

ApplyCase(s, c) ==
    IF c = "upper" THEN Upper(s)
    ELSE IF c = "title" /\ s # <<>> THEN <<UpperChar(s[1])>> \o Tail(s)
    ELSE s

ApplyWrap(s, op) ==
    IF op = "lead_ws" THEN <<" ">> \o s
    ELSE IF op = "trail_ws" THEN s \o <<"\t">>
    ELSE IF op = "both_ws" THEN <<" ", " ">> \o s \o <<" ">>
    ELSE IF op = "dquote" THEN <<"\"">> \o s \o <<"\"">>
    ELSE <<"'">> \o s \o <<"'">>

RECURSIVE ApplyWraps(_, _)
ApplyWraps(s, ops) ==
    IF ops = <<>> THEN s ELSE ApplyWraps(ApplyWrap(s, Head(ops)), Tail(ops))

HeurTokens ==
    {<<"a","p","a","c","h","e">>, <<"A","P","A","C","H","E">>, <<"2",".","0">>, <<"m","i","t">>, <<"b","s","d">>, <<"e","c","l","i","p","s","e">>, <<"l","g","p","l">>,
     <<"l","e","s","s","e","r">>, <<"g","p","l">>, <<"m","o","z","i","l","l","a">>, <<"m","p","l">>, <<"a","l","f","r","e","s","c","o">>, <<"3">>, <<" ">>, <<"x">>}

KeyVariants ==
    {[kind |-> "key", key |-> k, case |-> c, wraps |-> w] :
        k \in TableKeys, c \in CaseKinds, w \in SeqUpTo(WrapOps, MaxWraps)}

TokenVariants ==
    {[kind |-> "tokens", toks |-> t] : t \in SeqUpTo(HeurTokens, MaxTokens)}

BuildName(v) ==
    IF v.kind = "key" THEN ApplyWraps(ApplyCase(v.key, v.case), v.wraps)
    ELSE Concat(v.toks)

InitCanon ==
    /\ pc = "canon_ready"
    /\ variant \in KeyVariants \cup TokenVariants
    /\ license_name = BuildName(variant)
    /\ url_result = None
    /\ ParseIdle /\ DedupIdle /\ NetIdle /\ MainIdle

\* LicenseMapper.get_url(license_name)
Canonicalize ==
    /\ pc = "canon_ready"
    /\ url_result' = get_url(license_name)
    /\ pc' = "canon_done"
    /\ UNCHANGED <<variant, license_name, parseVars, dedupVars, netVars, mainVars>>

NextCanon == Canonicalize

SpecCanon == InitCanon /\ [][NextCanon]_vars

(***************************************************************************)
(* License-text parser inputs                                              *)
(***************************************************************************)
MaxTextTokens == 4

TextTokens ==
    {<<"A">>, <<",">>, <<" ">>, <<"V","e","r","s","i","o","n">>, <<"v","e","r","s","i","o","n">>, <<"s">>, <<";">>, <<"h","t","t","p",":","/","/","u">>}

EclipseExample == <<"E","c","l","i","p","s","e"," ","P","u","b","l","i","c"," ","L","i","c","e","n","s","e",","," ","V","e","r","s","i","o","n"," ","2",".","0",","," ","A","p","a","c","h","e","-","2",".","0">>

TextInputs ==
    {Concat(t) : t \in SeqUpTo(TextTokens, MaxTextTokens)}
        \cup {EclipseExample, <<"-">>, <<"M","I","T",";"," ","h","t","t","p",":","/","/","e","x","a","m","p","l","e",".","c","o","m","/","l","i","c","e","n","s","e">>}

InitParse ==
    /\ pc = "parse_ready"
    /\ license_text \in TextInputs
    /\ split_points = {}
    /\ parsed_licenses = <<>>
    /\ CanonIdle /\ DedupIdle /\ NetIdle /\ MainIdle

\* SyftOutputParser._parse_license_text(license_text)
ParseLicenseText ==
    /\ pc = "parse_ready"
    /\ parsed_licenses' = parse_license_text(license_text)
    /\ split_points' = IF license_text = <<>> \/ license_text = <<"-">> THEN {}
                       ELSE SplitPointsFrom(license_text, 1)
    /\ pc' = "parse_done"
    /\ UNCHANGED <<license_text, canonVars, dedupVars, netVars, mainVars>>

NextParse == ParseLicenseText

SpecParse == InitParse /\ [][NextParse]_vars

(***************************************************************************)
(* Deduplicator inputs                                                     *)
(***************************************************************************)
MaxPackages == 3

LicA1 == [name |-> <<"A">>, url |-> "urlA1"]

LicA2 == [name |-> <<"A">>, url |-> "urlA2"]

LicB == [name |-> <<"B">>, url |-> None]

DedupKeys == {<<<<"n","1">>, <<"1",".","0">>>>, <<<<"n","1">>, <<"2",".","0">>>>, <<<<"n","2">>, <<"1",".","0">>>>}

DedupLicenseLists == {<<>>, <<LicA1>>, <<LicA2, LicB>>, <<LicB, LicA1, LicB>>}

DedupOrigins == {<<<<"p","1">>, "Original">>, <<<<"p","2">>, "Maven/GitHub/Heuristic">>}

DedupPackages ==
    {[name |-> k[1], version |-> k[2], purl |-> o[1], licenses |-> l,
      license_source |-> o[2]] :
        k \in DedupKeys, l \in DedupLicenseLists, o \in DedupOrigins}

InitDedup ==
    /\ pc = "dedup_ready"
    /\ packages_in \in SeqUpTo(DedupPackages, MaxPackages)
    /\ merged_out = <<>>
    /\ CanonIdle /\ ParseIdle /\ NetIdle /\ MainIdle

\* PackageDeduplicator.deduplicate(packages)
Deduplicate ==
    /\ pc = "dedup_ready"
    /\ merged_out' = deduplicate(packages_in)
    /\ pc' = "dedup_done"
    /\ UNCHANGED <<packages_in, canonVars, parseVars, netVars, mainVars>>

NextDedup == Deduplicate

SpecDedup == InitDedup /\ [][NextDedup]_vars

(***************************************************************************)
(* Environment: Maven Central and GitHub                                   *)
(***************************************************************************)
NumArtifacts == 5

MaxSpecial == 2

MaxCalls == 1

GROUP == <<"g">>

VERSION == <<"1">>

Art(i) == <<"a", Digits[i + 1]>>

T(i) == <<GROUP, Art(i), VERSION>>

Triples == {T(i) : i \in 1..NumArtifacts}

IndexOf(t) == CHOOSE i \in 1..NumArtifacts : T(i) = t

Succ(i) == IF i = NumArtifacts THEN 1 ELSE i + 1

\* a triple Maven Central has no document for
UnknownTriple == <<<<"o","r","g",".","a","p","a","c","h","e">>, <<"z","z">>, VERSION>>

GITHUB_SCM == <<"h","t","t","p","s",":","/","/","g","i","t","h","u","b",".","c","o","m","/","o","/","r",".","g","i","t">>

OTHER_SCM == <<"h","t","t","p","s",":","/","/","e","x","a","m","p","l","e",".","o","r","g","/","r">>

\* the <license> entry a declaring POM of artifact i carries
PomLicense(i) ==
    [name |-> IF i = 1 THEN <<" ","M","I","T"," ">> ELSE <<"L", Digits[i + 1]>>,
     url  |-> IF i % 2 = 0 THEN "https://example.org/license" ELSE ""]

DocKinds ==
    {"declared", "missing", "scm_github", "scm_github_end", "scm_other",
     "parent_none", "parent_self", "parent_incomplete"}

\* the POM of artifact i; a plain POM has no licenses, no scm url and names
\* the next artifact as parent without giving a groupId
DocOf(i, kind) ==
    IF kind = "missing" THEN Absent
    ELSE [licenses |-> IF kind = "declared" THEN <<PomLicense(i)>> ELSE <<>>,
          scm_url  |-> IF kind \in {"scm_github", "scm_github_end"} THEN GITHUB_SCM
                       ELSE IF kind = "scm_other" THEN OTHER_SCM ELSE <<>>,
          parent   |-> IF kind \in {"parent_none", "scm_github_end"} THEN Absent
                       ELSE IF kind = "parent_self"
                            THEN [groupId |-> GROUP, artifactId |-> Art(i),
                                  version |-> VERSION]
                       ELSE IF kind = "parent_incomplete"
                            THEN [groupId |-> GROUP, artifactId |-> Art(Succ(i)),
                                  version |-> <<>>]
                       ELSE [groupId |-> <<>>, artifactId |-> Art(Succ(i)),
                             version |-> VERSION]]

\* the artifacts whose POM deviates from the plain one, with their kinds
KindAssignments(positions, kinds, maxSpecial) ==
    UNION {[S -> kinds] : S \in {S \in SUBSET positions : Cardinality(S) <= maxSpecial}}

KindAt(k, i) == IF i \in DOMAIN k THEN k[i] ELSE "plain"

Registries(positions, kinds, maxSpecial) ==
    {[t \in Triples |-> DocOf(IndexOf(t), KindAt(k, IndexOf(t)))] :
        k \in KindAssignments(positions, kinds, maxSpecial)}

RegistryDoc(t) == IF t \in DOMAIN registry THEN registry[t] ELSE Absent

\* what one GET of the POM can end in: status 200 with the document the
\* registry holds, another status, a transport error, or a body ET.fromstring
\* rejects
HttpOutcomes(t) ==
    (IF RegistryDoc(t) = Absent THEN {} ELSE {[kind |-> "ok", doc |-> RegistryDoc(t)]})
        \cup {[kind |-> k] : k \in {"status", "transport", "malformed"}}

\* an exception leaving the function
Raised == [raised |-> TRUE]

\* a fetch whose try block does not cover the XML parse
fetch_pom_parse_unguarded(outcome) ==
    IF outcome.kind = "ok" THEN outcome.doc
    ELSE IF outcome.kind = "malformed" THEN Raised
    ELSE Absent

\* the body of fetch_pom: the document on status 200, None in every other
\* case ("except Exception" covers the GET and the parse)
fetch_pom(outcome) == IF outcome.kind = "ok" THEN outcome.doc ELSE Absent

\* what one uncached fetch_pom call can return
NetworkResponses(t) == {fetch_pom(o) : o \in HttpOutcomes(t)}

GitHubResponses ==
    {[ok |-> FALSE],
     [ok |-> TRUE, spdx_id |-> <<"M","I","T">>, html_url |-> "https://github.com/o/r/blob/LICENSE"],
     [ok |-> TRUE, spdx_id |-> <<"N","O","A","S","S","E","R","T","I","O","N">>,
      html_url |-> "https://github.com/o/r/blob/LICENSE"]}

Bump(counts, t) ==
    [x \in DOMAIN counts \cup {t} |->
        IF x = t THEN (IF t \in DOMAIN counts THEN counts[t] + 1 ELSE 1)
        ELSE counts[x]]

RecordFirst(firsts, t, value) ==
    IF t \in DOMAIN firsts THEN firsts
    ELSE [x \in DOMAIN firsts \cup {t} |-> IF x = t THEN value ELSE firsts[x]]

(***************************************************************************)
(* MavenCentralClient.lookup_license_recursively, step by step             *)
(***************************************************************************)
\* entry of a frame with max_depth == 0
DepthExhausted ==
    /\ pc = "resolve"
    /\ depth = 0
    /\ result' = <<>>
    /\ pc' = "resolved"
    /\ UNCHANGED <<canonVars, parseVars, dedupVars, envVars, mainVars, fetchVars, enrichVars,
                   cur, depth, start_depth, pom, pom_licenses, requested, links,
                   calls, attempts>>

\* fetch_pom answered from the lru_cache
FetchPomCached ==
    /\ pc = "resolve"
    /\ depth > 0
    /\ cur \in DOMAIN cache
    /\ pom' = cache[cur]
    /\ first_fetch' = RecordFirst(first_fetch, cur, cache[cur])
    /\ fetch_calls' = Bump(fetch_calls, cur)
    /\ requested' = requested + 1
    /\ pc' = "have_pom"
    /\ UNCHANGED <<canonVars, parseVars, dedupVars, envVars, mainVars, enrichVars, cache,
                   net_gets, cur, depth, start_depth, pom_licenses, links, result,
                   calls, attempts>>

\* fetch_pom issuing the GET; an exception it let through would end the run
FetchPomNetwork ==
    /\ pc = "resolve"
    /\ depth > 0
    /\ cur \notin DOMAIN cache
    /\ \E response \in NetworkResponses(cur) :
          IF response = Raised
          THEN /\ pc' = "crashed"
               /\ UNCHANGED <<pom, cache, first_fetch>>
          ELSE /\ pc' = "have_pom"
               /\ pom' = response
               /\ cache' = CacheStore(cache, cur, response)
               /\ first_fetch' = RecordFirst(first_fetch, cur, response)
    /\ net_gets' = Bump(net_gets, cur)
    /\ fetch_calls' = Bump(fetch_calls, cur)
    /\ requested' = requested + 1
    /\ UNCHANGED <<canonVars, parseVars, dedupVars, envVars, mainVars, enrichVars, cur, depth,
                   start_depth, pom_licenses, links, result, calls, attempts>>

\* "if pom is None: return []"
PomAbsent ==
    /\ pc = "have_pom"
    /\ pom = Absent
    /\ result' = <<>>
    /\ attempts' = Append(attempts, [src |-> "registry", found |-> FALSE])
    /\ pc' = "resolved"
    /\ UNCHANGED <<canonVars, parseVars, dedupVars, envVars, mainVars, fetchVars, enrichVars,
                   cur, depth, start_depth, pom, pom_licenses, requested, links, calls>>

\* licenses = extract_licenses_from_pom(pom), GitHub fallback included
ExtractLicenses ==
    /\ pc = "have_pom"
    /\ pom # Absent
    /\ \E response \in GitHubResponses :
          /\ (~(CallsGitHub(pom) /\ Contains(pom.scm_url, <<"g","i","t","h","u","b",".","c","o","m","/">>))
                => response = [ok |-> FALSE])
          /\ pom_licenses' = extract_licenses_from_pom(pom, response)
          /\ links' = Append(links, [triple |-> cur,
                                     licenses |-> extract_licenses_from_pom(pom, response)])
          /\ attempts' = attempts
                \o <<[src |-> "registry",
                      found |-> DeclaredLicenses(pom.licenses) # <<>>]>>
                \o (IF CallsGitHub(pom)
                    THEN <<[src |-> "github",
                            found |-> extract_licenses_from_pom(pom, response) # <<>>]>>
                    ELSE <<>>)
    /\ pc' = "extracted"
    /\ UNCHANGED <<canonVars, parseVars, dedupVars, envVars, mainVars, fetchVars, enrichVars,
                   cur, depth, start_depth, pom, requested, result, calls>>

\* "if licenses: return licenses"
ReturnLicenses ==
    /\ pc = "extracted"
    /\ pom_licenses # <<>>
    /\ result' = pom_licenses
    /\ pc' = "resolved"
    /\ UNCHANGED <<canonVars, parseVars, dedupVars, envVars, mainVars, fetchVars, enrichVars,
                   cur, depth, start_depth, pom, pom_licenses, requested, links,
                   calls, attempts>>

\* no <parent>, or one without artifactId or version: return []
NoParent ==
    /\ pc = "extracted"
    /\ pom_licenses = <<>>
    /\ ~HasUsableParent(pom, cur[1])
    /\ result' = <<>>
    /\ pc' = "resolved"
    /\ UNCHANGED <<canonVars, parseVars, dedupVars, envVars, mainVars, fetchVars, enrichVars,
                   cur, depth, start_depth, pom, pom_licenses, requested, links,
                   calls, attempts>>

\* the recursive call on the parent with max_depth - 1
FollowParent ==
    /\ pc = "extracted"
    /\ pom_licenses = <<>>
    /\ HasUsableParent(pom, cur[1])
    /\ cur' = ParentTriple(pom.parent, cur[1])
    /\ depth' = NextDepth(depth)
    /\ pom' = Absent
    /\ pc' = "resolve"
    /\ UNCHANGED <<canonVars, parseVars, dedupVars, envVars, mainVars, fetchVars, enrichVars,
                   start_depth, pom_licenses, requested, links, result, calls,
                   attempts>>

ResolveStep ==
    \/ DepthExhausted
    \/ FetchPomCached
    \/ FetchPomNetwork
    \/ PomAbsent
    \/ ExtractLicenses
    \/ ReturnLicenses
    \/ NoParent
    \/ FollowParent

(***************************************************************************)
(* The resolver called directly                                            *)
(***************************************************************************)
\* a lookup from T(1) requests at most DEFAULT_MAX_DEPTH descriptors; the
\* one after them is where data lies out of reach
ResolvePositions == 1..(DEFAULT_MAX_DEPTH + 1)

\* a missing document is what a failed GET gives as well
ResolveKinds == DocKinds \ {"missing"}

InitResolve ==
    /\ pc = "idle"
    /\ registry \in Registries(ResolvePositions, ResolveKinds, MaxSpecial)
    /\ FetchIdle /\ ResolveIdle /\ EnrichIdle
    /\ CanonIdle /\ ParseIdle /\ DedupIdle /\ MainIdle

\* lookup_license_recursively(group_id, artifact_id, version, max_depth)
CallResolver ==
    /\ pc \in {"idle", "resolved"}
    /\ calls < MaxCalls
    /\ \E t \in {T(1), UnknownTriple}, d \in 0..DEFAULT_MAX_DEPTH :
          /\ cur' = t
          /\ depth' = d
          /\ start_depth' = d
    /\ pom' = Absent
    /\ pom_licenses' = <<>>
    /\ requested' = 0
    /\ links' = <<>>
    /\ attempts' = <<>>
    /\ result' = <<>>
    /\ calls' = calls + 1
    /\ pc' = "resolve"
    /\ UNCHANGED <<canonVars, parseVars, dedupVars, envVars, mainVars, fetchVars, enrichVars>>

NextResolve ==
    \/ CallResolver
    \/ DepthExhausted
    \/ FetchPomCached
    \/ FetchPomNetwork
    \/ PomAbsent
    \/ ExtractLicenses
    \/ ReturnLicenses
    \/ NoParent
    \/ FollowParent

SpecResolve == InitResolve /\ [][NextResolve]_vars

(***************************************************************************)
(* LicenseEnricher.enrich_packages, step by step                           *)
(***************************************************************************)
MaxEnrichPackages == 2

MaxEnrichSpecial == 1

Pkg(name, purl, licenses) ==
    [name |-> name, version |-> VERSION, purl |-> purl, licenses |-> licenses,
     license_source |-> ORIGINAL]

\* packages as the parser produces them: license_source is Original
EnrichUniverse ==
    {Pkg(<<"l","i","b">>, <<"p","k","g",":","m","a","v","e","n","/","g","/","a","1","@","1">>, <<>>),
     Pkg(<<"c","o","m","m","o","n","s","-","i","o">>, <<"p","k","g",":","m","a","v","e","n","/","g","/","a","2","@","1">>, <<>>),
     Pkg(<<"t","o","m","c","a","t">>, <<"p","k","g",":","d","e","b","/","t","o","m","c","a","t","@","1">>, <<>>),
     Pkg(<<"l","i","b">>, <<"p","k","g",":","m","a","v","e","n","/","n","o","g","r","o","u","p","@","1">>, <<>>),
     Pkg(<<"j","a","k","a","r","t","a",".","x">>, <<"p","k","g",":","m","a","v","e","n","/","o","r","g",".","a","p","a","c","h","e","/","z","z","@","1">>, <<>>),
     Pkg(<<"l","i","c">>, <<"p","k","g",":","m","a","v","e","n","/","g","/","a","1","@","1">>, <<LicA1>>)}

\* the artifacts the purls of EnrichUniverse name
EnrichPositions == {1, 2}

EnrichKinds == {"declared", "missing", "scm_github", "parent_none"}

InitEnrich ==
    /\ pc = "enrich"
    /\ registry \in Registries(EnrichPositions, EnrichKinds, MaxEnrichSpecial)
    /\ packages \in SeqUpTo(EnrichUniverse, MaxEnrichPackages)
    /\ packages0 = packages
    /\ todo = <<>> /\ idx = 0 /\ found = <<>> /\ events = <<>> /\ outcomes = <<>>
    /\ returned = <<>>
    /\ FetchIdle /\ ResolveIdle
    /\ CanonIdle /\ ParseIdle /\ DedupIdle /\ MainIdle

\* "if not packages_without_licenses: return packages"
EnrichNothingToDo ==
    /\ pc = "enrich"
    /\ WithoutLicenses(packages, 1) = <<>>
    /\ returned' = packages
    /\ pc' = "enrich_done"
    /\ UNCHANGED <<canonVars, parseVars, dedupVars, envVars, mainVars, fetchVars, resolveVars,
                   packages, packages0, todo, idx, found, events, outcomes, attempts>>

\* entering the loop over packages_without_licenses
EnrichBegin ==
    /\ pc = "enrich"
    /\ WithoutLicenses(packages, 1) # <<>>
    /\ todo' = WithoutLicenses(packages, 1)
    /\ idx' = 1
    /\ pc' = "loop"
    /\ UNCHANGED <<canonVars, parseVars, dedupVars, envVars, mainVars, fetchVars, resolveVars,
                   packages, packages0, found, events, outcomes, attempts, returned>>

\* the sleep of iteration i, if any, then the start of the lookup
EventsOfIteration(i, package_index) ==
    (IF NeedsDelay(i) THEN <<[kind |-> "delay", pkg |-> package_index]>> ELSE <<>>)
        \o <<[kind |-> "lookup", pkg |-> package_index]>>

\* _lookup_package_licenses: the purl has Maven coordinates, call the resolver
LookupMaven ==
    /\ pc = "loop"
    /\ extract_maven_coordinates(packages[todo[idx]].purl) # NoCoordinates
    /\ events' = events \o EventsOfIteration(idx, todo[idx])
    /\ cur' = extract_maven_coordinates(packages[todo[idx]].purl)
    /\ depth' = DEFAULT_MAX_DEPTH
    /\ start_depth' = DEFAULT_MAX_DEPTH
    /\ pom' = Absent
    /\ pom_licenses' = <<>>
    /\ requested' = 0
    /\ links' = <<>>
    /\ result' = <<>>
    /\ calls' = calls + 1
    /\ attempts' = <<>>
    /\ found' = <<>>
    /\ pc' = "resolve"
    /\ UNCHANGED <<canonVars, parseVars, dedupVars, envVars, mainVars, fetchVars,
                   packages, packages0, todo, idx, outcomes, returned>>

\* _lookup_package_licenses: no coordinates, straight to the heuristics
LookupNoCoordinates ==
    /\ pc = "loop"
    /\ extract_maven_coordinates(packages[todo[idx]].purl) = NoCoordinates
    /\ events' = events \o EventsOfIteration(idx, todo[idx])
    /\ attempts' = <<>>
    /\ found' = <<>>
    /\ pc' = "heuristics"
    /\ UNCHANGED <<canonVars, parseVars, dedupVars, envVars, mainVars, fetchVars, resolveVars,
                   packages, packages0, todo, idx, outcomes, returned>>

\* a lookup that consults the heuristics even after the resolver found licenses
RegistryFoundThenHeuristics ==
    /\ pc = "resolved"
    /\ result # <<>>
    /\ found' = result
    /\ pc' = "heuristics"
    /\ UNCHANGED <<canonVars, parseVars, dedupVars, envVars, mainVars, fetchVars, resolveVars,
                   packages, packages0, todo, idx, events, outcomes, attempts, returned>>

\* "if licenses: return licenses" after the resolver
RegistryFound ==
    /\ pc = "resolved"
    /\ result # <<>>
    /\ found' = result
    /\ pc' = "assign"
    /\ UNCHANGED <<canonVars, parseVars, dedupVars, envVars, mainVars, fetchVars, resolveVars,
                   packages, packages0, todo, idx, events, outcomes, attempts, returned>>

\* the resolver gave nothing: fall through to the heuristics
RegistryEmpty ==
    /\ pc = "resolved"
    /\ result = <<>>
    /\ pc' = "heuristics"
    /\ UNCHANGED <<canonVars, parseVars, dedupVars, envVars, mainVars, fetchVars, resolveVars,
                   packages, packages0, todo, idx, found, events, outcomes, attempts,
                   returned>>

\* return PackageHeuristics.apply_heuristics(package)
ApplyHeuristics ==
    /\ pc = "heuristics"
    /\ found' = apply_heuristics(packages[todo[idx]])
    /\ attempts' = Append(attempts,
                          [src |-> "heuristics",
                           found |-> apply_heuristics(packages[todo[idx]]) # <<>>])
    /\ pc' = "assign"
    /\ UNCHANGED <<canonVars, parseVars, dedupVars, envVars, mainVars, fetchVars, resolveVars,
                   packages, packages0, todo, idx, events, outcomes, returned>>

\* an assignment that forgets to mark the package as enriched
AssignKeepingSource(pkgs, i, licenses) ==
    IF licenses # <<>>
    THEN [pkgs EXCEPT ![i].licenses = licenses]
    ELSE pkgs

\* "if licenses: package.licenses = licenses; package.license_source = ..."
Assign(pkgs, i, licenses) ==
    IF licenses # <<>>
    THEN [pkgs EXCEPT ![i].licenses = licenses, ![i].license_source = ENRICHED]
    ELSE pkgs

\* the end of one iteration; after the last one, "return packages"
StoreResult ==
    /\ pc = "assign"
    /\ packages' = Assign(packages, todo[idx], found)
    /\ outcomes' = Append(outcomes, [pkg |-> todo[idx], licenses |-> found])
    /\ IF idx < Len(todo)
       THEN /\ idx' = idx + 1
            /\ pc' = "loop"
            /\ returned' = returned
       ELSE /\ idx' = idx
            /\ pc' = "enrich_done"
            /\ returned' = Assign(packages, todo[idx], found)
    /\ UNCHANGED <<canonVars, parseVars, dedupVars, envVars, mainVars, fetchVars, resolveVars,
                   packages0, todo, found, events, attempts>>

NextEnrich ==
    \/ EnrichNothingToDo
    \/ EnrichBegin
    \/ LookupMaven
    \/ LookupNoCoordinates
    \/ DepthExhausted
    \/ FetchPomCached
    \/ FetchPomNetwork
    \/ PomAbsent
    \/ ExtractLicenses
    \/ ReturnLicenses
    \/ NoParent
    \/ FollowParent
    \/ RegistryFound
    \/ RegistryEmpty
    \/ ApplyHeuristics
    \/ StoreResult

SpecEnrich == InitEnrich /\ [][NextEnrich]_vars

(***************************************************************************)
(* main, stage by stage                                                    *)
(***************************************************************************)
MaxLines == 2

\* what the scanner reports: an artifact, written as one line by the
\* template, or text that is no artifact line
Artifact(name, version, purl, text) ==
    [kind |-> "artifact", name |-> name, version |-> version, purl |-> purl,
     license_text |-> text]

RawText(text) == [kind |-> "raw", text |-> text]

\* vendor packages without license text, two packages sharing name and
\* version, purls with an "@" or "/" inside the version, a purl without
\* group, a line the pattern does not match, a blank line
ScannerUniverse ==
    {Artifact(<<"a","l","f","r","e","s","c","o","-","c","o","r","e">>, <<"1">>, <<"p","k","g",":","m","a","v","e","n","/","g","/","a","1","@","1">>, <<>>),
     Artifact(<<"a","l","f","r","e","s","c","o","-","x">>, <<"1">>, <<"p","k","g",":","m","a","v","e","n","/","g","/","a","1","@","1">>, <<"-">>),
     Artifact(<<"c","o","m","m","o","n","s","-","i","o">>, <<"1">>, <<"p","k","g",":","m","a","v","e","n","/","g","/","a","1","@","1">>, <<>>),
     Artifact(<<"c","o","m","m","o","n","s","-","i","o">>, <<"1">>, <<"p","k","g",":","d","e","b","/","c","@","1">>, <<"M","I","T">>),
     Artifact(<<"t","o","m","c","a","t">>, <<"1">>, <<"p","k","g",":","m","a","v","e","n","/","g","/","a","1","@","1","@","2">>, <<>>),
     Artifact(<<"l","i","b">>, <<"1">>, <<"p","k","g",":","m","a","v","e","n","/","g","/","a","1","@","1","/","2">>, <<>>),
     Artifact(<<"j","a","k","a","r","t","a",".","x">>, <<"1">>, <<"p","k","g",":","m","a","v","e","n","/","n","o","g","r","o","u","p","@","1">>, <<>>),
     RawText(<<"n","o"," ","p","a","c","k","a","g","e"," ","h","e","r","e">>),
     RawText(<<" "," ">>)}

\* DEFAULT_TEMPLATE: name:version:purl - licenses
TemplateLine(e) ==
    IF e.kind = "raw" THEN e.text
    ELSE e.name \o <<":">> \o e.version \o <<":">> \o e.purl \o <<" ", "-", " ">>
            \o e.license_text

\* the scanner's stdout: one line per entry
RECURSIVE TemplateOutput(_)
TemplateOutput(entries) ==
    IF entries = <<>> THEN <<>>
    ELSE TemplateLine(Head(entries)) \o <<NL>> \o TemplateOutput(Tail(entries))

\* the POM of the first artifact declares a license, or points at a GitHub
\* repository and has no parent, or is plain
MainKinds == {"declared", "scm_github_end", "plain"}

MainRegistries ==
    {[t \in Triples |-> DocOf(IndexOf(t), IF IndexOf(t) = 1 THEN k ELSE "plain")] :
        k \in MainKinds}

STAGES == <<"scan", "parse", "enrich", "deduplicate", "render", "write">>

InitMain ==
    /\ pc = "main"
    /\ registry \in MainRegistries
    /\ MainIdle
    /\ FetchIdle /\ ResolveIdle /\ EnrichIdle
    /\ CanonIdle /\ ParseIdle /\ DedupIdle

\* "if len(sys.argv) < 2: ... sys.exit(1)"
Usage ==
    /\ pc = "main"
    /\ exit_status' = 1
    /\ pc' = "exited"
    /\ UNCHANGED <<canonVars, parseVars, dedupVars, netVars, scanned, syft_output, trace, report>>

\* SyftRunner.run ending in sys.exit(1): CalledProcessError or FileNotFoundError
SyftFails ==
    /\ pc = "main"
    /\ trace' = Append(trace, "scan")
    /\ exit_status' = 1
    /\ pc' = "exited"
    /\ UNCHANGED <<canonVars, parseVars, dedupVars, netVars, scanned, syft_output, report>>

\* SyftRunner.run returning stdout, and "if not syft_output.strip(): sys.exit(1)"
SyftReturns ==
    /\ pc = "main"
    /\ \E entries \in SeqUpTo(ScannerUniverse, MaxLines) :
          /\ scanned' = entries
          /\ syft_output' = TemplateOutput(entries)
          /\ IF StripText(TemplateOutput(entries)) = <<>>
             THEN exit_status' = 1 /\ pc' = "exited"
             ELSE exit_status' = exit_status /\ pc' = "parse"
    /\ trace' = Append(trace, "scan")
    /\ UNCHANGED <<canonVars, parseVars, dedupVars, netVars, report>>

\* packages = SyftOutputParser.parse(syft_output), and
\* "if not packages: sys.exit(1)"
ParseOutput ==
    /\ pc = "parse"
    /\ packages' = parse(syft_output)
    /\ packages0' = parse(syft_output)
    /\ trace' = Append(trace, "parse")
    /\ IF parse(syft_output) = <<>>
       THEN exit_status' = 1 /\ pc' = "exited"
       ELSE exit_status' = exit_status /\ pc' = "parsed"
    /\ UNCHANGED <<canonVars, parseVars, dedupVars, envVars, fetchVars, resolveVars,
                   attempts, todo, idx, found, events, outcomes, returned,
                   scanned, syft_output, report>>

\* the call of LicenseEnricher.enrich_packages(packages)
StartEnrich ==
    /\ pc = "parsed"
    /\ trace' = Append(trace, "enrich")
    /\ pc' = "enrich"
    /\ UNCHANGED <<canonVars, parseVars, dedupVars, netVars, scanned, syft_output, report,
                   exit_status>>

\* packages = PackageDeduplicator.deduplicate(packages)
DeduplicateStage ==
    /\ pc = "enrich_done"
    /\ packages_in' = returned
    /\ merged_out' = deduplicate(returned)
    /\ trace' = Append(trace, "deduplicate")
    /\ pc' = "render"
    /\ UNCHANGED <<canonVars, parseVars, netVars, scanned, syft_output, report, exit_status>>

\* html_content = HTMLReportGenerator.generate_report(packages, image_name)
Render ==
    /\ pc = "render"
    /\ trace' = Append(trace, "render")
    /\ pc' = "write"
    /\ UNCHANGED <<canonVars, parseVars, dedupVars, netVars, scanned, syft_output, report,
                   exit_status>>

\* license coverage in percent, as the final statistics compute it
coverage_percentage(pkgs) ==
    IF pkgs = <<>> THEN 0
    ELSE (Cardinality({i \in 1..Len(pkgs) : has_licenses(pkgs[i])}) * 100) \div Len(pkgs)

\* a run that fails when the coverage is under 80 percent
StatusCoverageGate(coverage) == IF coverage < 80 THEN 1 ELSE 0

\* "if coverage_percentage < 80: print(...)" and the return from main: a hint
\* is printed, the status is zero
StatusAfterReport(coverage) == 0

\* output_path.write_text(html_content), the statistics, and the return
\* from main
WriteReport ==
    /\ pc = "write"
    /\ trace' = Append(trace, "write")
    /\ report' = [written |-> TRUE, packages |-> merged_out,
                  coverage |-> coverage_percentage(merged_out)]
    /\ exit_status' = StatusAfterReport(coverage_percentage(merged_out))
    /\ pc' = "exited"
    /\ UNCHANGED <<canonVars, parseVars, dedupVars, netVars, scanned, syft_output>>

\* "except Exception: ... sys.exit(1)": an exception raised while rendering
\* or writing, or one that left the enrichment
UnhandledError ==
    /\ pc \in {"render", "write", "crashed"}
    /\ trace' = IF pc = "crashed" THEN trace ELSE Append(trace, pc)
    /\ exit_status' = 1
    /\ pc' = "exited"
    /\ UNCHANGED <<canonVars, parseVars, dedupVars, netVars, scanned, syft_output, report>>

NextMain ==
    \/ Usage
    \/ SyftFails
    \/ SyftReturns
    \/ ParseOutput
    \/ StartEnrich
    \/ EnrichNothingToDo
    \/ EnrichBegin
    \/ LookupMaven
    \/ LookupNoCoordinates
    \/ DepthExhausted
    \/ FetchPomCached
    \/ FetchPomNetwork
    \/ PomAbsent
    \/ ExtractLicenses
    \/ ReturnLicenses
    \/ NoParent
    \/ FollowParent
    \/ RegistryFound
    \/ RegistryEmpty
    \/ ApplyHeuristics
    \/ StoreResult
    \/ DeduplicateStage
    \/ Render
    \/ WriteReport
    \/ UnhandledError

SpecMain == InitMain /\ [][NextMain]_vars

(***************************************************************************)
(* Properties                                                              *)
(***************************************************************************)
Names(licenses) == [i \in 1..Len(licenses) |-> licenses[i].name]

\* the comma at position i is followed by optional whitespace and then the
\* word Version or version
CommaBeforeVersion(s, i) ==
    /\ s[i] = ","
    /\ VersionAt(s, i + 1 + SpaceRun(s, i + 1))

\* C1: parse_license_text never splits at a comma that is followed by
\* optional whitespace and the word "Version"/"version", and the Eclipse
\* example yields exactly the two entries "Eclipse Public License, Version
\* 2.0" and "Apache-2.0", in that order.
C1_NoSplitBeforeVersion ==
    pc = "parse_done" =>
        /\ \A i \in 1..Len(license_text) :
              CommaBeforeVersion(license_text, i) => i \notin split_points
        /\ license_text = EclipseExample =>
              Names(parsed_licenses) =
                  <<<<"E","c","l","i","p","s","e"," ","P","u","b","l","i","c"," ","L","i","c","e","n","s","e",","," ","V","e","r","s","i","o","n"," ","2",".","0">>, <<"A","p","a","c","h","e","-","2",".","0">>>>

\* the indices of packages_in whose key occurs there for the first time
FirstSeen(pkgs) ==
    {i \in 1..Len(pkgs) : \A j \in 1..(i - 1) : unique_key(pkgs[j]) # unique_key(pkgs[i])}

\* the members of the group of pkgs[f], as indices
Group(pkgs, f) == {i \in 1..Len(pkgs) : unique_key(pkgs[i]) = unique_key(pkgs[f])}

\* the licenses of the members of a group, concatenated in input order
RECURSIVE GroupLicenses(_, _, _)
GroupLicenses(pkgs, f, i) ==
    IF i > Len(pkgs) THEN <<>>
    ELSE (IF i \in Group(pkgs, f) THEN pkgs[i].licenses ELSE <<>>)
         \o GroupLicenses(pkgs, f, i + 1)

\* out is cat with every entry whose name occurred earlier in cat dropped
IsFirstByName(cat, out) ==
    LET kept == {k \in 1..Len(cat) : \A j \in 1..(k - 1) : cat[j].name # cat[k].name}
    IN  /\ Len(out) = Cardinality(kept)
        /\ \A n \in 1..Len(out) :
              \E k \in kept :
                 /\ Cardinality({j \in kept : j <= k}) = n
                 /\ out[n] = cat[k]

\* C2: deduplicate returns one package per distinct (name, version) key in
\* first-seen order; each takes name, version, purl and license_source from
\* the first-seen member and holds the members' licenses concatenated in
\* input order with later repeats of a license name dropped.
C2_Deduplicate ==
    pc = "dedup_done" =>
        /\ Len(merged_out) = Cardinality(FirstSeen(packages_in))
        /\ \A n \in 1..Len(merged_out) :
              \E f \in FirstSeen(packages_in) :
                 /\ Cardinality({g \in FirstSeen(packages_in) : g <= f}) = n
                 /\ merged_out[n].name = packages_in[f].name
                 /\ merged_out[n].version = packages_in[f].version
                 /\ merged_out[n].purl = packages_in[f].purl
                 /\ merged_out[n].license_source = packages_in[f].license_source
                 /\ IsFirstByName(GroupLicenses(packages_in, f, 1),
                                  merged_out[n].licenses)
        /\ \A n \in 1..Len(merged_out) :
              \A a, b \in 1..Len(merged_out[n].licenses) :
                 a # b => merged_out[n].licenses[a].name # merged_out[n].licenses[b].name

\* three packages, the first and third sharing a key and the license name A
\* under different urls, merged into two
C2_Witness ==
    /\ pc = "dedup_done"
    /\ Len(packages_in) = 3
    /\ Len(merged_out) = 2
    /\ unique_key(packages_in[1]) = unique_key(packages_in[3])
    /\ packages_in[1].licenses = <<LicA1>>
    /\ packages_in[3].licenses = <<LicA2, LicB>>
    /\ packages_in[1].purl # packages_in[3].purl
    /\ merged_out[1].licenses = <<LicA1, LicB>>

\* C9 as stated: every variant of a table key by case, whitespace and
\* quotes canonicalises to the key's url
C9_AllVariants ==
    pc = "canon_done" /\ variant.kind = "key" =>
        url_result = TableUrl(variant.key)

\* the wraps put double quotes directly around the key and whitespace only
\* outside the quotes
QuotesThenSpace(wraps) ==
    /\ \A i \in 1..Len(wraps) : wraps[i] # "squote"
    /\ \A i, j \in 1..Len(wraps) :
          wraps[i] = "dquote" /\ wraps[j] # "dquote" => i < j

\* C9 (amended): every variant of a table key obtained by changing letter
\* case, wrapping it in double quotes and then adding leading or trailing
\* whitespace outside the quotes canonicalises to the key's url.
C9_QuotedThenPadded ==
    pc = "canon_done" /\ variant.kind = "key" /\ QuotesThenSpace(variant.wraps) =>
        url_result = TableUrl(variant.key)

C9_Witness ==
    /\ pc = "canon_done"
    /\ variant.kind = "key"
    /\ variant.case = "upper"
    /\ variant.wraps = <<"dquote", "both_ws">>
    /\ variant.key = <<"g","n","u"," ","g","e","n","e","r","a","l"," ","p","u","b","l","i","c"," ","l","i","c","e","n","s","e"," ","v","2">>
    /\ url_result = URL_GPL2_TXT

\* the heuristic rules in priority order, as keyword tests on the name n;
\* mitPrefix selects a prefix test for the MIT rule instead of containment
RuleHit(r, n, mitPrefix) ==
    IF r = 1 THEN Contains(n, <<"a","p","a","c","h","e">>) /\ Contains(n, <<"2",".","0">>)
    ELSE IF r = 2 THEN (IF mitPrefix THEN StartsWith(n, <<"m","i","t">>) ELSE Contains(n, <<"m","i","t">>))
    ELSE IF r = 3 THEN Contains(n, <<"b","s","d">>)
    ELSE IF r = 4 THEN Contains(n, <<"e","c","l","i","p","s","e">>)
    ELSE IF r = 5 THEN Contains(n, <<"l","g","p","l">>) \/ Contains(n, <<"l","e","s","s","e","r">>)
    ELSE IF r = 6 THEN Contains(n, <<"g","p","l">>)
    ELSE IF r = 7 THEN Contains(n, <<"m","o","z","i","l","l","a">>) \/ Contains(n, <<"m","p","l">>)
    ELSE Contains(n, <<"a","l","f","r","e","s","c","o">>)

RuleUrl(r, n) ==
    IF r = 1 THEN URL_APACHE2
    ELSE IF r = 2 THEN URL_MIT
    ELSE IF r = 3 THEN URL_BSD3
    ELSE IF r = 4 THEN (IF Contains(n, <<"2",".","0">>) THEN URL_EPL2 ELSE URL_EPL1)
    ELSE IF r = 5 THEN URL_LGPL3
    ELSE IF r = 6 THEN (IF Contains(n, <<"3">>) THEN URL_GPL3 ELSE URL_GPL2)
    ELSE IF r = 7 THEN (IF Contains(n, <<"2",".","0">>) THEN URL_MPL2 ELSE URL_MPL11)
    ELSE URL_ALFRESCO

FirstRuleUrl(n, mitPrefix) ==
    LET hits == {r \in 1..8 : RuleHit(r, n, mitPrefix)}
    IN  IF hits = {} THEN None
        ELSE RuleUrl(CHOOSE r \in hits : \A q \in hits : r <= q, n)

\* C10 as stated: every rule, the MIT rule included, is a containment test
C10_AllContainment ==
    pc = "canon_done" /\ Normalize(license_name) \notin TableKeys =>
        /\ url_result = FirstRuleUrl(Normalize(license_name), FALSE)
        /\ (Contains(Normalize(license_name), <<"a","p","a","c","h","e">>)
              /\ Contains(Normalize(license_name), <<"2",".","0">>)) => url_result = URL_APACHE2

\* C10 (amended): for a normalized name that is not a table key the result
\* is the url of the first rule, in the order Apache 2.0, MIT, BSD, Eclipse,
\* LGPL/"lesser", GPL, Mozilla/MPL, vendor, that matches the name, where the
\* MIT rule matches names that start with "mit" and every other rule is a
\* containment test; names with "apache" and "2.0" get the Apache-2.0 url.
C10_FirstRuleWins ==
    pc = "canon_done" /\ Normalize(license_name) \notin TableKeys =>
        /\ url_result = FirstRuleUrl(Normalize(license_name), TRUE)
        /\ (Contains(Normalize(license_name), <<"a","p","a","c","h","e">>)
              /\ Contains(Normalize(license_name), <<"2",".","0">>)) => url_result = URL_APACHE2

\* "2.0 APACHE": both keywords, reversed and in upper case, not a table key
C10_Witness ==
    /\ pc = "canon_done"
    /\ variant.kind = "tokens"
    /\ variant.toks = <<<<"2",".","0">>, <<" ">>, <<"A","P","A","C","H","E">>>>
    /\ Normalize(license_name) \notin TableKeys
    /\ url_result = URL_APACHE2

(***************************************************************************)
(* Properties of the resolver and of the enrichment loop                   *)
(***************************************************************************)
\* the descriptor a fetch of t gives in this run: the cached answer if the
\* triple was fetched, else the registry's document
View(t) == IF t \in DOMAIN cache THEN cache[t] ELSE RegistryDoc(t)

\* the parent coordinate a descriptor refers to, group defaulting to the
\* child's; <<>> if there is none or it lacks artifact or version
ParentRef(doc, t) ==
    IF doc.parent = Absent THEN <<>>
    ELSE IF doc.parent.artifactId = <<>> \/ doc.parent.version = <<>> THEN <<>>
    ELSE <<IF doc.parent.groupId = <<>> THEN t[1] ELSE doc.parent.groupId,
           doc.parent.artifactId, doc.parent.version>>

\* the parent chain from t, as the triples of at most n descriptors
RECURSIVE Chain(_, _)
Chain(t, n) ==
    IF n = 0 \/ View(t) = Absent THEN <<>>
    ELSE <<t>> \o (IF ParentRef(View(t), t) = <<>> THEN <<>>
                   ELSE Chain(ParentRef(View(t), t), n - 1))

StartTriple == IF links = <<>> THEN cur ELSE links[1].triple

Min(a, b) == IF a <= b THEN a ELSE b

\* the names a descriptor declares itself
DeclaredNames(doc) ==
    [i \in 1..Len(doc.licenses) |-> Strip(doc.licenses[i].name)]

\* C3: a call with max_depth = 4 walks the parent chain from the requested
\* descriptor (link 1), returns exactly what the first descriptor with a
\* non-empty extraction yields if that is one of links 1 to 4, and returns
\* empty otherwise; the licenses of a farther descriptor are never merged in.
C3_FirstNonEmptyWithinFour ==
    /\ Len(links) <= DEFAULT_MAX_DEPTH
    /\ (pc = "resolved" /\ start_depth = DEFAULT_MAX_DEPTH) =>
          LET chain == Chain(StartTriple, DEFAULT_MAX_DEPTH + 1)
              hits  == {k \in 1..Len(links) : links[k].licenses # <<>>}
          IN  /\ Len(links) <= Len(chain)
              /\ \A k \in 1..Len(links) : links[k].triple = chain[k]
              /\ \A k \in 1..Len(links) :
                    DeclaredNames(View(chain[k])) # <<>> =>
                        Names(links[k].licenses) = DeclaredNames(View(chain[k]))
              /\ IF hits # {}
                 THEN /\ hits = {Len(links)}
                      /\ result = links[Len(links)].licenses
                 ELSE /\ result = <<>>
                      /\ Len(links) = Min(Len(chain), DEFAULT_MAX_DEPTH)

\* a chain of five descriptors with data only at the fifth: four visited,
\* nothing returned
C3_Witness ==
    /\ pc = "resolved"
    /\ start_depth = DEFAULT_MAX_DEPTH
    /\ Len(links) = 4
    /\ result = <<>>
    /\ Len(Chain(StartTriple, 5)) = 5
    /\ DeclaredNames(View(Chain(StartTriple, 5)[5])) # <<>>

\* during a call at most max_depth descriptors are requested, the budget of
\* the current frame is what the requests so far have left, and a call
\* with max_depth = 0 returns empty without any request
RequestBudget ==
    /\ requested <= start_depth
    /\ pc = "resolve" => depth = start_depth - requested
    /\ (pc = "resolved" /\ start_depth = 0) => (result = <<>> /\ requested = 0)

\* the work a call has left: three steps per unit of budget
Measure ==
    IF pc = "resolve" THEN 3 * depth + 3
    ELSE IF pc = "have_pom" THEN 3 * depth + 2
    ELSE IF pc = "extracted" THEN 3 * depth + 1
    ELSE 0

MeasureDecreases ==
    pc \in {"resolve", "have_pom", "extracted"} => (Measure' < Measure /\ Measure' >= 0)

\* C4: a call of the resolver requests at most max_depth descriptors, with
\* max_depth = 0 it returns empty without requesting any, and every step of
\* a call strictly decreases a non-negative measure, so the call returns on
\* every descriptor graph, cyclic ones included.
C4_TerminatesWithinBudget ==
    /\ []RequestBudget
    /\ [][MeasureDecreases]_vars

\* a descriptor that names itself as parent, walked until the budget is spent
C4_Witness ==
    /\ pc = "resolved"
    /\ start_depth = DEFAULT_MAX_DEPTH
    /\ requested = DEFAULT_MAX_DEPTH
    /\ result = <<>>
    /\ Len(links) = 4
    /\ links[1].triple = links[4].triple

\* C5: at most one network GET per triple, also after a failed first fetch,
\* and every fetch of a triple returns what its first fetch returned.
C5_OneGetPerTriple ==
    /\ \A t \in DOMAIN net_gets : net_gets[t] <= 1
    /\ pc = "have_pom" => pom = first_fetch[cur]

\* the second fetch of a triple whose only GET failed although the registry
\* holds its document: answered from the cache, absent again
C5_Witness ==
    /\ pc = "have_pom"
    /\ fetch_calls[cur] = 2
    /\ net_gets[cur] = 1
    /\ RegistryDoc(cur) # Absent
    /\ first_fetch[cur] = Absent
    /\ pom = Absent

OutcomesOf(i) == {k \in 1..Len(outcomes) : outcomes[k].pkg = i}

\* C6: enrich returns the same list in the same order; a package that had a
\* license is unchanged and never looked up; a package that had none gets
\* exactly the non-empty lookup result and source Enriched, or stays empty
\* and Original after an empty lookup result.
C6_EnrichFrame ==
    /\ \A k \in 1..Len(events) : ~has_licenses(packages0[events[k].pkg])
    /\ pc = "enrich_done" =>
          /\ returned = packages
          /\ Len(returned) = Len(packages0)
          /\ \A i \in 1..Len(packages0) :
                /\ returned[i].name = packages0[i].name
                /\ returned[i].version = packages0[i].version
                /\ returned[i].purl = packages0[i].purl
                /\ IF has_licenses(packages0[i])
                   THEN /\ returned[i] = packages0[i]
                        /\ OutcomesOf(i) = {}
                   ELSE /\ Cardinality(OutcomesOf(i)) = 1
                        /\ \A k \in OutcomesOf(i) :
                              IF outcomes[k].licenses # <<>>
                              THEN /\ returned[i].licenses = outcomes[k].licenses
                                   /\ returned[i].license_source = ENRICHED
                              ELSE /\ returned[i].licenses = <<>>
                                   /\ returned[i].license_source = ORIGINAL

\* a licensed package next to one that was enriched
C6_Witness ==
    /\ pc = "enrich_done"
    /\ Len(packages0) = 2
    /\ has_licenses(packages0[1])
    /\ ~has_licenses(packages0[2])
    /\ returned[1] = packages0[1]
    /\ returned[2].license_source = ENRICHED
    /\ returned[2].licenses # <<>>

\* C7: the heuristics are the last source tried for a package, every source
\* tried before them (registry, source hosting) found nothing, and they are
\* not tried when the resolver returned licenses.
C7_HeuristicsLast ==
    /\ \A k \in 1..Len(attempts) :
          attempts[k].src = "heuristics" =>
              /\ k = Len(attempts)
              /\ \A j \in 1..(k - 1) : ~attempts[j].found
              /\ (k > 1 => result = <<>>)
    /\ pc = "heuristics" => \A j \in 1..Len(attempts) : ~attempts[j].found
    /\ (pc = "assign" /\ attempts # <<>> /\ attempts[1].src = "registry"
          /\ result # <<>>) =>
          /\ found = result
          /\ \A k \in 1..Len(attempts) : attempts[k].src # "heuristics"

\* the registry descriptor declared nothing, its GitHub repository gave
\* nothing, its parents gave nothing, and only then a heuristic rule
\* supplied the license
C7_Witness ==
    /\ pc = "assign"
    /\ Len(attempts) >= 3
    /\ attempts[1] = [src |-> "registry", found |-> FALSE]
    /\ attempts[2] = [src |-> "github", found |-> FALSE]
    /\ attempts[Len(attempts)] = [src |-> "heuristics", found |-> TRUE]
    /\ found # <<>>

Count(kind) == Cardinality({k \in 1..Len(events) : events[k].kind = kind})

IsArtifact(e) == e.kind = "artifact"

Entered(stage) == \E i \in 1..Len(trace) : trace[i] = stage

\* a scanned artifact of the vendor with no license text or the dash
VendorCase(e) ==
    /\ IsArtifact(e)
    /\ StartsWith(e.name, <<"a","l","f","r","e","s","c","o","-">>)
    /\ e.license_text \in {<<>>, <<"-">>}

VENDOR_FALLBACK ==
    [name |-> <<"G","N","U"," ","L","e","s","s","e","r"," ","G","e","n","e","r","a","l"," ","P","u","b","l","i","c"," ","L","i","c","e","n","s","e"," ","v","3",".","0"," ","o","r"," ","l","a","t","e","r">>,
     url  |-> "https://www.gnu.org/licenses/lgpl-3.0.html"]

LookedUp(k) == \E i \in 1..Len(events) : events[i].kind = "lookup" /\ events[i].pkg = k

\* C11: every scanned vendor artifact ("alfresco-" name) whose license text is
\* empty or the dash is parsed into a package with exactly one license, the
\* vendor fallback with its table URL; the package stays Original, is never
\* looked up by enrich and is returned by enrich as parsed.
C11_VendorFallback ==
    Entered("parse") =>
        LET arts == SelectSeq(scanned, IsArtifact)
        IN  /\ Len(packages0) = Len(arts)
            /\ \A k \in 1..Len(arts) :
                  VendorCase(arts[k]) =>
                      /\ packages0[k].name = arts[k].name
                      /\ packages0[k].licenses = <<VENDOR_FALLBACK>>
                      /\ packages0[k].license_source = "Original"
                      /\ packages[k] = packages0[k]
                      /\ ~LookedUp(k)
                      /\ (pc = "enrich_done" => returned[k] = packages0[k])

\* a vendor artifact with the dash next to an artifact enrich looked up
C11_Witness ==
    /\ pc = "enrich_done"
    /\ Len(scanned) = 2
    /\ VendorCase(scanned[1])
    /\ scanned[1].license_text = <<"-">>
    /\ returned[1].licenses = <<VENDOR_FALLBACK>>
    /\ returned[1].license_source = "Original"
    /\ LookedUp(2)

\* nothing the parser can turn into a package
NoArtifact == \A i \in 1..Len(scanned) : ~IsArtifact(scanned[i])

\* C12: the stages run in the order scan, parse, enrich, deduplicate, render,
\* write; a run without any parseable artifact (scanner failed or missing,
\* empty output, no package parsed) ends nonzero without enriching,
\* deduplicating or writing a report; a run ends with status zero exactly
\* when the report was written, whatever the coverage, and nonzero otherwise.
C12_PipelineExit ==
    /\ Len(trace) <= 6
    /\ \A i \in 1..Len(trace) :
          trace[i] = <<"scan", "parse", "enrich", "deduplicate", "render", "write">>[i]
    /\ events # <<>> => Entered("enrich")
    /\ Entered("deduplicate") => (packages_in = returned /\ Len(returned) = Len(packages0))
    /\ pc \in {"loop", "resolve", "have_pom", "extracted", "resolved", "heuristics", "assign"}
          => (Entered("enrich") /\ ~Entered("deduplicate"))
    /\ (pc = "exited") = (exit_status # Running)
    /\ exit_status \in {Running, 0, 1}
    /\ report.written => (pc = "exited" /\ Len(trace) = 6)
    /\ pc = "exited" => ((exit_status = 0) = report.written)
    /\ (pc = "exited" /\ NoArtifact) =>
          /\ exit_status = 1
          /\ ~Entered("enrich") /\ ~Entered("deduplicate") /\ ~Entered("write")
          /\ events = <<>> /\ merged_out = <<>> /\ ~report.written
    /\ (pc = "exited" /\ scanned = <<>>) => ~Entered("parse")

\* a report written with no license found for any package: status zero
C12_Witness ==
    /\ pc = "exited"
    /\ report.written
    /\ report.coverage = 0
    /\ Len(report.packages) > 0
    /\ exit_status = 0
    /\ Len(trace) = 6

\* a GET for the triple failed although the registry holds its document
FetchFailed(t) ==
    /\ t \in DOMAIN first_fetch
    /\ first_fetch[t] = Absent
    /\ t \in DOMAIN registry
    /\ registry[t] # Absent

\* no error has left a step, the loop is at a package without licenses, a
\* lookup that found nothing in the registry has gone on to the heuristics,
\* and at the end the whole list is returned: every package without licenses
\* was looked up exactly once, one whose lookup found nothing is as parsed
NoFailureEscapes ==
    /\ pc \in {"enrich", "loop", "resolve", "have_pom", "extracted", "resolved",
                "heuristics", "assign", "enrich_done"}
    /\ pc \in {"loop", "resolve", "have_pom", "extracted", "resolved", "heuristics", "assign"}
          => (idx \in 1..Len(todo) /\ ~has_licenses(packages0[todo[idx]]))
    /\ pc = "assign" =>
          \/ attempts # <<>> /\ attempts[Len(attempts)].src = "heuristics"
          \/ found # <<>> /\ found = result
    /\ pc = "enrich_done" =>
          /\ Len(returned) = Len(packages0)
          /\ \A i \in 1..Len(packages0) :
                ~has_licenses(packages0[i]) =>
                    /\ Cardinality({k \in 1..Len(events) :
                                      events[k].kind = "lookup" /\ events[k].pkg = i}) = 1
                    /\ \A k \in 1..Len(outcomes) :
                          (outcomes[k].pkg = i /\ outcomes[k].licenses = <<>>)
                              => returned[i] = packages0[i]

\* whatever the lookup of a package gave, the loop moves to the next package
\* without licenses, or returns after the last one
MovesOn ==
    pc = "assign" =>
        \/ idx < Len(todo) /\ idx' = idx + 1 /\ pc' = "loop" /\ todo' = todo
        \/ idx = Len(todo) /\ pc' = "enrich_done"

\* C13: no failure of a registry fetch, of the source-hosting request or of
\* the purl split leaves enrich as an error or stops the loop: the package
\* degrades to the heuristics or to no license, every later package without
\* licenses is still looked up, and the whole list is returned.
C13_FailuresDegrade ==
    /\ []NoFailureEscapes
    /\ [][MovesOn]_vars

\* the fetch for the first package failed and left it without license; the
\* second package was still looked up and got its license
C13_Witness ==
    /\ pc = "enrich_done"
    /\ Len(packages0) = 2
    /\ extract_maven_coordinates(packages0[1].purl) # NoCoordinates
    /\ FetchFailed(extract_maven_coordinates(packages0[1].purl))
    /\ returned[1] = packages0[1]
    /\ ~has_licenses(packages0[2])
    /\ \E k \in 1..Len(events) : events[k].kind = "lookup" /\ events[k].pkg = 2
    /\ returned[2].licenses # <<>>

\* a Maven purl whose text after the first "@", the version, holds another
\* "@" or a "/"
SeparatorInVersion(purl) ==
    /\ StartsWith(purl, <<"p","k","g",":","m","a","v","e","n","/">>)
    /\ \E i \in 1..Len(purl) :
          /\ purl[i] = "@"
          /\ \A j \in 1..(i - 1) : purl[j] # "@"
          /\ \E j \in (i + 1)..Len(purl) : purl[j] \in {"@", "/"}

\* C14: for a package whose Maven purl has an "@" or "/" inside the version,
\* coordinate extraction gives "not applicable" and the lookup of that package
\* never reaches the registry resolver (it goes straight to the heuristics).
C14_SeparatorInVersionNotLookedUp ==
    \A i \in 1..Len(packages0) :
        SeparatorInVersion(packages0[i].purl) =>
            /\ extract_maven_coordinates(packages0[i].purl) = NoCoordinates
            /\ (idx \in 1..Len(todo) /\ todo[idx] = i)
                  => pc \notin {"resolve", "have_pom", "extracted", "resolved"}

SameKey(a, b) == a.name = b.name /\ a.version = b.version

\* the packages enrich returned that share the key of o and hold a license
\* of that name; the merge took the license from the first of them
Contributors(o, license_name_) ==
    {i \in 1..Len(returned) :
        /\ SameKey(returned[i], o)
        /\ \E k \in 1..Len(returned[i].licenses) :
              returned[i].licenses[k].name = license_name_}

\* C15: after enrich and deduplicate, every license an output package holds
\* comes from an input package with the same license_source as the output
\* package: Original packages hold parsed licenses only, Enriched packages
\* hold licenses found by enrichment only.
C15_SourceMatchesOrigin ==
    Entered("deduplicate") =>
        \A o \in 1..Len(merged_out) :
            \A l \in 1..Len(merged_out[o].licenses) :
                LET from == Contributors(merged_out[o], merged_out[o].licenses[l].name)
                IN  \A i \in from :
                        (\A j \in from : i <= j)
                            => returned[i].license_source = merged_out[o].license_source

====
